---- MODULE Spec2Model ----
(***************************************************************************)
(* The ZipArchiver of internal/provider/zip_archiver.go as a state         *)
(* machine: one Archiver writing one target archive, over a source file    *)
(* system that holds files, directories and symbolic links.                *)
(*                                                                         *)
(* A string is a sequence of one-character strings, so that ToSlash,       *)
(* FromSlash, Join, sort.Strings and ParseUint work on characters as the   *)
(* Go functions do.  A file-system path is a sequence of component names.  *)
(***************************************************************************)
EXTENDS Integers, Sequences, FiniteSets, TLC

\* Depth of nested filepath.Walk calls at which the goroutine stack is
\* exhausted (the Go runtime then aborts the process).
MaxStack == 3

NIL == "nil"

----------------------------------------------------------------------------
(* Strings *)

Str0 == << >>
StrDot == << "." >>

\* Byte value of a character, for Go's string comparison.
Code(c) ==
  CASE c = "." -> 46
    [] c = "/" -> 47
    [] c = "\\" -> 92
    [] c = "a" -> 97
    [] c = "b" -> 98
    [] OTHER -> 0

\* s < t on Go strings (bytewise lexicographic).
StrLess(s, t) ==
  \/ /\ Len(s) < Len(t)
     /\ \A j \in 1..Len(s) : s[j] = t[j]
  \/ \E i \in 1..Len(s) :
       /\ i <= Len(t)
       /\ \A j \in 1..(i - 1) : s[j] = t[j]
       /\ Code(s[i]) < Code(t[i])

IsPrefix(p, s) ==
  /\ Len(p) <= Len(s)
  /\ \A i \in 1..Len(p) : p[i] = s[i]

RECURSIVE Insert(_, _)
Insert(sorted, k) ==
  IF sorted = << >> THEN << k >>
  ELSE IF StrLess(k, Head(sorted)) THEN << k >> \o sorted
  ELSE << Head(sorted) >> \o Insert(Tail(sorted), k)

RECURSIVE SortStrings(_)
\* sort.Strings(keys): the keys in ascending order.
SortStrings(keys) ==
  IF keys = << >> THEN << >>
  ELSE Insert(SortStrings(Tail(keys)), Head(keys))

----------------------------------------------------------------------------
(* path/filepath on the platform's separator *)

VARIABLES
  separator,       \* filepath.Separator of the build: "/" or "\\"
  fs,              \* the source file system: Skeleton -> node
  outputFileMode,  \* ZipArchiver.outputFileMode
  filewriter,      \* ZipArchiver.filewriter: NIL or "file"
  writer,          \* ZipArchiver.writer: NIL or "zip"
  target,          \* the entries of the archive file at ZipArchiver.filepath
  pc,              \* "idle", "walking" (inside ArchiveDir) or "crashed"
  stack,           \* the filepath.Walk calls in progress, outermost first
  result,          \* what the public operation last called returned
  reached,         \* whether it called open()
  opened,          \* whether its open() succeeded
  op,              \* the operation, NIL unless its open() succeeded
  args,            \* its arguments, NoArgs unless its open() succeeded
  written,         \* the entries it created, in order
  closed           \* what its close() closed, in order

vars == << separator, fs, outputFileMode, filewriter, writer, target, pc,
           stack, op, args, result, written, opened, reached, closed >>

\* filepath.ToSlash
ToSlash(path) ==
  IF separator = "/" THEN path
  ELSE [i \in DOMAIN path |-> IF path[i] = separator THEN "/" ELSE path[i]]

\* filepath.FromSlash
FromSlash(path) ==
  IF separator = "/" THEN path
  ELSE [i \in DOMAIN path |-> IF path[i] = "/" THEN separator ELSE path[i]]

RECURSIVE Elements(_, _)
\* The elements of a path string between separators; cur is the element
\* being read.
Elements(s, cur) ==
  IF s = << >> THEN << cur >>
  ELSE IF Head(s) = separator THEN << cur >> \o Elements(Tail(s), << >>)
  ELSE Elements(Tail(s), Append(cur, Head(s)))

RECURSIVE JoinElements(_)
JoinElements(es) ==
  IF es = << >> THEN << >>
  ELSE IF Len(es) = 1 THEN es[1]
  ELSE es[1] \o << separator >> \o JoinElements(Tail(es))

\* filepath.Clean on a relative path without ".." elements: slashes become
\* the separator, empty and "." elements are dropped, "" becomes ".".
Clean(path) ==
  LET es == Elements(FromSlash(path), << >>)
      kept == SelectSeq(es, LAMBDA e : e # << >> /\ e # StrDot)
  IN IF kept = << >> THEN StrDot ELSE JoinElements(kept)

\* filepath.Join(basePath, relname): empty elements are ignored, the rest
\* joined by the separator and cleaned.
Join(basePath, relname) ==
  IF basePath = << >> /\ relname = << >> THEN << >>
  ELSE IF basePath = << >> THEN Clean(relname)
  ELSE IF relname = << >> THEN Clean(basePath)
  ELSE Clean(basePath \o << separator >> \o relname)

\* The path string of a file-system path (one character per component).
PathStr(p) == JoinElements([i \in DOMAIN p |-> << p[i] >>])

\* filepath.Rel(indirname, path) for a path at or below indirname.
Rel(indirname, path) ==
  IF path = indirname THEN StrDot
  ELSE PathStr(SubSeq(path, Len(indirname) + 1, Len(path)))

----------------------------------------------------------------------------
(* strconv.ParseUint(s, 0, 32) *)

DigitVal(c) ==
  CASE c = "0" -> 0 [] c = "1" -> 1 [] c = "2" -> 2 [] c = "3" -> 3
    [] c = "4" -> 4 [] c = "5" -> 5 [] c = "6" -> 6 [] c = "7" -> 7
    [] c = "8" -> 8 [] c = "9" -> 9
    [] c \in {"a", "A"} -> 10 [] c \in {"b", "B"} -> 11
    [] c \in {"c", "C"} -> 12 [] c \in {"d", "D"} -> 13
    [] c \in {"e", "E"} -> 14 [] c \in {"f", "F"} -> 15
    [] OTHER -> 36

RECURSIVE DigitsValue(_, _, _)
DigitsValue(ds, base, acc) ==
  IF ds = << >> THEN acc
  ELSE DigitsValue(Tail(ds), base, acc * base + DigitVal(Head(ds)))

\* Base 0: the prefix 0b, 0o, 0x or 0 selects the base, else it is 10; a
\* character that is no digit of the base is a syntax error.  (Every mode
\* string of the model is short, so the 32-bit range check never trips.)
ParseUint(s) ==
  LET prefixed == Len(s) >= 3 /\ s[1] = "0" /\ s[2] \in {"b", "B", "o", "O", "x", "X"}
      base == IF s # << >> /\ s[1] = "0"
              THEN (IF prefixed /\ s[2] \in {"b", "B"} THEN 2
                    ELSE IF prefixed /\ s[2] \in {"x", "X"} THEN 16
                    ELSE 8)
              ELSE 10
      ds == IF s # << >> /\ s[1] = "0"
            THEN (IF prefixed THEN SubSeq(s, 3, Len(s)) ELSE Tail(s))
            ELSE s
  IN IF s = << >> \/ \E i \in DOMAIN ds : DigitVal(ds[i]) >= base
     THEN [err |-> TRUE, val |-> 0]
     ELSE [err |-> FALSE, val |-> DigitsValue(ds, base, 0)]

\* The values SetOutputFileMode is called with: "", "0755" and "notanumber".
ModeStrings ==
  { Str0,
    << "0", "7", "5", "5" >>,
    << "n", "o", "t", "a", "n", "u", "m", "b", "e", "r" >> }

----------------------------------------------------------------------------
(* The source file system *)

\* Hops filepath.EvalSymlinks takes before it reports too many links.
MaxLinksWalked == 8

Root == << >>
NoPath == << "!" >>

Skeleton ==
  { << "a" >>, << "b" >>, << "b", "a" >>, << "b", "b" >>, << "b", "b", "a" >> }

LinkTargets == { Root, << "b" >>, << "b", "b" >> }

Nodes ==
  { [kind |-> k, target |-> Root] : k \in {"none", "file", "dir"} }
    \cup { [kind |-> "link", target |-> t] : t \in LinkTargets }

Parent(p) == SubSeq(p, 1, Len(p) - 1)

\* The file systems of the model: only a directory has children; a and
\* b/a are a file or a link, b is a directory, b/b a file or a directory
\* that holds the file b/b/a.
FileSystems ==
  { f \in [Skeleton -> Nodes] :
      /\ \A p \in Skeleton :
           (Len(p) > 1 /\ f[p].kind # "none") => f[Parent(p)].kind = "dir"
      /\ f[<< "a" >>].kind \in {"file", "link"}
      /\ f[<< "b" >>].kind = "dir"
      /\ f[<< "b", "a" >>].kind \in {"file", "link"}
      /\ f[<< "b", "b" >>].kind \in {"file", "dir"}
      /\ f[<< "b", "b", "a" >>].kind =
           (IF f[<< "b", "b" >>].kind = "dir" THEN "file" ELSE "none") }

Kind(p) ==
  IF p = Root THEN "dir"
  ELSE IF p \in Skeleton THEN fs[p].kind
  ELSE "none"

RECURSIVE Resolve(_, _, _)
\* done is the resolved directory reached so far, rest the components left.
Resolve(done, rest, fuel) ==
  IF rest = << >> THEN done
  ELSE LET p == Append(done, Head(rest))
           k == Kind(p)
       IN IF k = "none" THEN NoPath
          ELSE IF k = "link"
            THEN (IF fuel = 0 THEN NoPath
                  ELSE Resolve(Root, fs[p].target \o Tail(rest), fuel - 1))
          ELSE IF k = "file" /\ Tail(rest) # << >> THEN NoPath
          ELSE Resolve(p, Tail(rest), fuel)

\* filepath.EvalSymlinks(path): the real path, or NoPath for an error.
EvalSymlinks(path) == Resolve(Root, path, MaxLinksWalked)

Base(path) == IF path = Root THEN StrDot ELSE << path[Len(path)] >>

\* An os.FileInfo: the name asked for, and the node whose metadata (type
\* bits, size, times) it reports.
FileInfo(name, node) == [name |-> name, kind |-> Kind(node), node |-> node]

\* os.Lstat(path): the node itself, a link not followed.
Lstat(path) == FileInfo(Base(path), path)

\* os.Stat(path): the node the path resolves to.
Stat(path) == FileInfo(Base(path), EvalSymlinks(path))

IsDir(info) == info.kind = "dir"
IsSymlink(info) == info.kind = "link"

\* The names of a directory as filepath.Walk uses them: read in directory
\* order, then sorted.
Children(dir) ==
  LET listed == SelectSeq(<< << "b" >>, << "a" >> >>,
                          LAMBDA n : Kind(Append(dir, n[1])) # "none")
      names == SortStrings(listed)
  IN [i \in DOMAIN names |-> Append(dir, names[i][1])]

----------------------------------------------------------------------------
(* archive/zip headers and entries *)

\* An entry of the archive.  name, method, modtime, mode (-1: the bits of
\* the metadata), meta (the node whose metadata the header was built from)
\* and data (where the bytes came from; NoPath: none written) are what the
\* archive stores.  node, base, depth and key record the call that created
\* the entry: the path handed to the walk function, the base path and depth
\* of its walk, the key of the mapping.
Header(name, method, modtime, meta) ==
  [name |-> name, method |-> method, modtime |-> modtime, mode |-> -1,
   meta |-> meta, data |-> NoPath, node |-> NoPath, base |-> Str0,
   depth |-> 0, key |-> Str0]

\* zip.FileInfoHeader(fi): name, times and mode bits of the metadata,
\* method Store.
FileInfoHeader(fi) == Header(fi.name, "store", "mtime", fi.node)

\* The header zip.Writer.Create(name) builds.
CreateHeaderFor(name) == Header(name, "deflate", "zero", NoPath)

\* The longest entry name the archive takes (archive/zip: 65535 bytes).
MaxNameLen == 7

\* zip.Writer.Create and CreateHeader fail when the target cannot be
\* written or the name is too long for the format.
createFails(name, fault) == fault = "create" \/ Len(name) > MaxNameLen

\* What the walk and the loops hand back: a return value and the entries
\* created on the way.
Outcome(ret, entries) == [ret |-> ret, entries |-> entries]

----------------------------------------------------------------------------
(* ZipArchiver *)

NoOpts == [Excludes |-> << >>, ExcludeSymlinkDirectories |-> FALSE]
NoArgs == [name |-> Str0, infilename |-> Root, indirname |-> Root,
           opts |-> NoOpts, content |-> {}]

Init ==
  /\ separator \in {"/", "\\"}
  /\ fs \in FileSystems
  /\ outputFileMode = Str0
  /\ filewriter = NIL
  /\ writer = NIL
  /\ target = << >>
  /\ pc = "idle"
  /\ stack = << >>
  /\ op = NIL
  /\ args = NoArgs
  /\ result = NIL
  /\ written = << >>
  /\ opened = FALSE
  /\ reached = FALSE
  /\ closed = << >>

\* A target opened without truncation.
openNoTruncate(fault) ==
  IF fault = "open"
  THEN [err |-> "open_error", filewriter |-> filewriter, writer |-> writer,
        target |-> target]
  ELSE [err |-> NIL, filewriter |-> "file", writer |-> "zip",
        target |-> target]

\* open(): os.Create truncates the target; when it fails nothing changes.
open(fault) ==
  IF fault = "open"
  THEN [err |-> "open_error", filewriter |-> filewriter, writer |-> writer,
        target |-> target]
  ELSE [err |-> NIL, filewriter |-> "file", writer |-> "zip",
        target |-> << >>]

\* A close that closes the file under the zip writer.
closeFileFirst(w, fw) ==
  [writer |-> NIL, filewriter |-> NIL,
   log |-> (IF fw # NIL THEN << "filewriter" >> ELSE << >>)
             \o (IF w # NIL THEN << "writer" >> ELSE << >>)]

\* close(): the zip writer first, then the file, each only when set.
close(w, fw) ==
  [writer |-> NIL, filewriter |-> NIL,
   log |-> (IF w # NIL THEN << "writer" >> ELSE << >>)
             \o (IF fw # NIL THEN << "filewriter" >> ELSE << >>)]

\* The deferred close of an operation whose open() succeeded.
deferClose(o) ==
  IF o.err = NIL THEN close(o.writer, o.filewriter)
  ELSE [writer |-> o.writer, filewriter |-> o.filewriter, log |-> << >>]

\* An operation returns before it calls open().
ReturnEarly(err) ==
  /\ op' = NIL
  /\ args' = NoArgs
  /\ result' = err
  /\ written' = << >>
  /\ opened' = FALSE
  /\ reached' = FALSE
  /\ closed' = << >>
  /\ pc' = "idle"
  /\ stack' = << >>
  /\ UNCHANGED << separator, fs, outputFileMode, filewriter, writer, target >>

\* An operation returns after open() o, with what its body handed back.
Return(name, a, o, out) ==
  LET c == deferClose(o)
      ents == IF o.err = NIL THEN out.entries ELSE << >>
  IN /\ op' = (IF o.err = NIL THEN name ELSE NIL)
     /\ args' = (IF o.err = NIL THEN a ELSE NoArgs)
     /\ result' = (IF o.err = NIL THEN out.ret ELSE o.err)
     /\ written' = ents
     /\ opened' = (o.err = NIL)
     /\ reached' = TRUE
     /\ closed' = c.log
     /\ writer' = c.writer
     /\ filewriter' = c.filewriter
     /\ target' = o.target \o ents
     /\ pc' = "idle"
     /\ stack' = << >>
     /\ UNCHANGED << separator, fs, outputFileMode >>

\* SetOutputFileMode opens nothing and returns nothing.
SetOutputFileMode(mode) ==
  /\ pc = "idle"
  /\ outputFileMode' = mode
  /\ result' = NIL
  /\ reached' = FALSE
  /\ opened' = FALSE
  /\ op' = NIL
  /\ args' = NoArgs
  /\ written' = << >>
  /\ closed' = << >>
  /\ UNCHANGED << separator, fs, filewriter, writer, target, pc, stack >>

\* The body of ArchiveContent after open().
contentBody(infilename, fault) ==
  LET h == [CreateHeaderFor(ToSlash(infilename)) EXCEPT !.key = infilename]
  IN IF createFails(h.name, fault) THEN Outcome("create_error", << >>)
     ELSE IF fault = "write" THEN Outcome("write_error", << h >>)
     ELSE Outcome(NIL, << [h EXCEPT !.data = infilename] >>)

ArchiveContent(infilename, fault) ==
  /\ pc = "idle"
  /\ Return("ArchiveContent", [NoArgs EXCEPT !.name = infilename],
            open(fault), contentBody(infilename, fault))

\* assertValidFile(infilename): os.Stat succeeds and is not a directory.
assertValidFile(infilename) ==
  LET fi == Stat(infilename)
  IN [err |-> (IF fi.node = NoPath \/ IsDir(fi) THEN "invalid_input" ELSE NIL),
      fi |-> fi]

\* assertValidDir(indirname): os.Stat succeeds and is a directory.
assertValidDir(indirname) ==
  LET fi == Stat(indirname)
  IN [err |-> (IF fi.node = NoPath \/ ~IsDir(fi) THEN "invalid_input" ELSE NIL),
      fi |-> fi]

\* A mode that does not parse is skipped.
applyOutputFileModeLenient(fh) ==
  LET filemode == ParseUint(outputFileMode)
  IN IF outputFileMode = Str0 \/ filemode.err THEN [err |-> NIL, fh |-> fh]
     ELSE [err |-> NIL, fh |-> [fh EXCEPT !.mode = filemode.val]]

\* The configured mode applied to a header: unset leaves the header alone,
\* a value that does not parse is an error.
applyOutputFileMode(fh) ==
  LET filemode == ParseUint(outputFileMode)
  IN IF outputFileMode = Str0 THEN [err |-> NIL, fh |-> fh]
     ELSE IF filemode.err THEN [err |-> "parse_error", fh |-> fh]
     ELSE [err |-> NIL, fh |-> [fh EXCEPT !.mode = filemode.val]]

\* A header named by the whole path of the file.
fileHeaderFullPath(infilename, fi) ==
  [FileInfoHeader(fi) EXCEPT !.name = ToSlash(PathStr(infilename)),
                             !.method = "deflate",
                             !.modtime = "zero",
                             !.node = infilename]

\* The header ArchiveFile builds: the metadata's, with the base name
\* slash-normalised, method Deflate and the zero modification time.
fileHeader(infilename, fi) ==
  [FileInfoHeader(fi) EXCEPT !.name = ToSlash(fi.name),
                             !.method = "deflate",
                             !.modtime = "zero",
                             !.node = infilename]

\* The body of ArchiveFile after open(): header, mode, entry, content.
fileBody(infilename, fi, fault) ==
  LET m == applyOutputFileMode(fileHeader(infilename, fi))
  IN IF m.err # NIL THEN Outcome(m.err, << >>)
     ELSE IF createFails(m.fh.name, fault) THEN Outcome("create_error", << >>)
     ELSE IF fault = "write" THEN Outcome("write_error", << m.fh >>)
     ELSE Outcome(NIL, << [m.fh EXCEPT !.data = EvalSymlinks(infilename)] >>)

ArchiveFile(infilename, fault) ==
  LET a == [NoArgs EXCEPT !.infilename = infilename]
      v == assertValidFile(infilename)
  IN /\ pc = "idle"
     /\ IF v.err # NIL THEN ReturnEarly(v.err)
        ELSE IF fault = "read" THEN ReturnEarly("read_error")
        ELSE Return("ArchiveFile", a, open(fault),
                    fileBody(infilename, v.fi, fault))

RECURSIVE writeKeys(_, _, _)
\* The loop of ArchiveMultiple from the n-th key on.
writeKeys(keys, n, fault) ==
  IF n > Len(keys) THEN Outcome(NIL, << >>)
  ELSE LET filename == keys[n]
           h == [CreateHeaderFor(ToSlash(filename)) EXCEPT !.key = filename]
       IN IF createFails(h.name, IF fault.at = n THEN fault.kind ELSE "none")
          THEN Outcome("create_error", << >>)
          ELSE IF fault.at = n /\ fault.kind = "write"
          THEN Outcome("write_error", << h >>)
          ELSE LET rest == writeKeys(keys, n + 1, fault)
               IN Outcome(rest.ret,
                          << [h EXCEPT !.data = filename] >> \o rest.entries)

\* The keys written in the order the map yields them.
multipleBodyUnsorted(order, fault) == writeKeys(order, 1, fault)

\* The body of ArchiveMultiple after open(): order is the order in which
\* the range over the map yields the keys.
multipleBody(order, fault) == writeKeys(SortStrings(order), 1, fault)

ArchiveMultiple(content, order, fault) ==
  /\ pc = "idle"
  /\ Return("ArchiveMultiple", [NoArgs EXCEPT !.content = content],
            open(fault.kind), multipleBody(order, fault))

\* checkMatch(fileName, excludes)
checkMatch(fileName, excludes) ==
  \E i \in DOMAIN excludes : excludes[i] # Str0 /\ excludes[i] = fileName

\* One filepath.Walk call: the directory it walks, the base path of its
\* walk function, and the paths it has still to visit, in order.
Frame(basePath, indirname) ==
  [basePath |-> basePath, indirname |-> indirname, queue |-> << indirname >>]

NoFrame == Frame(Str0, Root)

\* An excluded directory is walked like any other.
walkDirNoSkip(isMatch) == NIL

\* What the walk function returns for a directory: SkipDir when excluded.
walkDir(isMatch) == IF isMatch THEN "SkipDir" ELSE NIL

\* Every link is resolved, whatever the option says.
followsAlways(info, opts) == IsSymlink(info)

\* Whether the walk function resolves the node: a link, with
\* ExcludeSymlinkDirectories unset.
follows(info, opts) == IsSymlink(info) /\ ~opts.ExcludeSymlinkDirectories

\* A nested walk based at the resolved directory's own path.
nestedWalkRealBase(archivePath, realPath) == Frame(PathStr(realPath), realPath)

\* The nested walk of a link to a directory: the resolved directory, walked
\* with the link's archive path as base path.
nestedWalk(archivePath, realPath) == Frame(archivePath, realPath)

\* A header named by the base name alone, as ArchiveFile names its entry.
walkHeaderBaseName(fi, archivePath) ==
  [FileInfoHeader(fi) EXCEPT !.name = ToSlash(fi.name),
                             !.method = "deflate",
                             !.modtime = "zero"]

\* The header the walk function builds.
walkHeader(fi, archivePath) ==
  [FileInfoHeader(fi) EXCEPT !.name = ToSlash(archivePath),
                             !.method = "deflate",
                             !.modtime = "zero"]

\* The walk function of createWalkFunc(basePath, indirname, opts) called
\* with path at walk depth depth.  ret is NIL, SkipDir, Walk (it calls
\* filepath.Walk on frame) or the error returned.
createWalkFunc(basePath, indirname, opts, path, depth, fault) ==
  LET info == Lstat(path)
      relname == Rel(indirname, path)
      archivePath == Join(basePath, relname)
      isMatch == checkMatch(archivePath, opts.Excludes)
      follow == follows(info, opts)
      realPath == EvalSymlinks(path)
      fi == IF follow THEN FileInfo(Base(realPath), realPath) ELSE info
      m == applyOutputFileMode(
             [walkHeader(fi, archivePath) EXCEPT !.node = path,
                                                 !.base = basePath,
                                                 !.depth = depth])
  IN IF fault = "walk"
       THEN [ret |-> "walk_error", entries |-> << >>, frame |-> NoFrame]
     ELSE IF IsDir(info)
       THEN [ret |-> walkDir(isMatch), entries |-> << >>, frame |-> NoFrame]
     ELSE IF isMatch
       THEN [ret |-> NIL, entries |-> << >>, frame |-> NoFrame]
     ELSE IF follow /\ (realPath = NoPath \/ fault = "symlink")
       THEN [ret |-> "symlink_error", entries |-> << >>, frame |-> NoFrame]
     ELSE IF follow /\ Kind(realPath) = "dir"
       THEN [ret |-> "Walk", entries |-> << >>,
             frame |-> nestedWalk(archivePath, realPath)]
     ELSE IF m.err # NIL
       THEN [ret |-> m.err, entries |-> << >>, frame |-> NoFrame]
     ELSE IF createFails(m.fh.name, fault)
       THEN [ret |-> "create_error", entries |-> << >>, frame |-> NoFrame]
     ELSE IF realPath = NoPath \/ Kind(realPath) = "dir"
       THEN [ret |-> "readfile_error", entries |-> << m.fh >>, frame |-> NoFrame]
     ELSE IF fault = "write"
       THEN [ret |-> "write_error", entries |-> << m.fh >>, frame |-> NoFrame]
     ELSE [ret |-> NIL, entries |-> << [m.fh EXCEPT !.data = realPath] >>,
           frame |-> NoFrame]

ExcludesFromSlash(excludes) ==
  [i \in DOMAIN excludes |-> FromSlash(excludes[i])]

\* ArchiveDir up to the call of filepath.Walk.
ArchiveDir(indirname, opts, fault) ==
  LET v == assertValidDir(indirname)
      a == [NoArgs EXCEPT !.indirname = indirname,
                          !.opts = [opts EXCEPT !.Excludes =
                                      ExcludesFromSlash(opts.Excludes)]]
      o == open(fault)
  IN /\ pc = "idle"
     /\ IF v.err # NIL THEN ReturnEarly(v.err)
        ELSE IF o.err # NIL THEN Return("ArchiveDir", a, o, Outcome(NIL, << >>))
        ELSE /\ op' = "ArchiveDir"
             /\ args' = a
             /\ result' = NIL
             /\ written' = << >>
             /\ opened' = TRUE
             /\ reached' = TRUE
             /\ closed' = << >>
             /\ writer' = o.writer
             /\ filewriter' = o.filewriter
             /\ target' = o.target
             /\ pc' = "walking"
             /\ stack' = << Frame(Str0, indirname) >>
             /\ UNCHANGED << separator, fs, outputFileMode >>

\* ArchiveDir returns err from the walk: the deferred close runs.
walkReturns(err) ==
  LET c == close(writer, filewriter)
  IN /\ result' = err
     /\ closed' = c.log
     /\ writer' = c.writer
     /\ filewriter' = c.filewriter
     /\ pc' = "idle"
     /\ stack' = << >>

\* filepath.Walk visits the next path of the innermost walk.  A nested
\* walk is a call inside the walk function: each one deepens the stack of
\* the goroutine, and when that is exhausted the Go runtime ends the
\* process, so that ArchiveDir never returns.
WalkStep(fault) ==
  LET top == Len(stack)
      f == stack[top]
      path == Head(f.queue)
      r == createWalkFunc(f.basePath, f.indirname, args.opts, path, top, fault)
      rest == [f EXCEPT !.queue = Tail(f.queue)]
      into == [f EXCEPT !.queue = Children(path) \o Tail(f.queue)]
  IN /\ pc = "walking"
     /\ f.queue # << >>
     /\ written' = written \o r.entries
     /\ target' = target \o r.entries
     /\ IF r.ret = NIL
          THEN /\ stack' = [stack EXCEPT ![top] =
                              IF IsDir(Lstat(path)) THEN into ELSE rest]
               /\ UNCHANGED << pc, result, closed, writer, filewriter >>
        ELSE IF r.ret = "SkipDir"
          THEN /\ stack' = [stack EXCEPT ![top] = rest]
               /\ UNCHANGED << pc, result, closed, writer, filewriter >>
        ELSE IF r.ret = "Walk"
          THEN IF top < MaxStack
               THEN /\ stack' = Append([stack EXCEPT ![top] = rest], r.frame)
                    /\ UNCHANGED << pc, result, closed, writer, filewriter >>
               ELSE /\ pc' = "crashed"
                    /\ UNCHANGED << stack, result, closed, writer, filewriter >>
        ELSE walkReturns(r.ret)
     /\ UNCHANGED << separator, fs, outputFileMode, op, args, opened, reached >>

\* A nested filepath.Walk has visited everything: it returns nil into the
\* walk function that called it, which returns nil.
WalkPop ==
  /\ pc = "walking"
  /\ Len(stack) > 1
  /\ stack[Len(stack)].queue = << >>
  /\ stack' = SubSeq(stack, 1, Len(stack) - 1)
  /\ UNCHANGED << separator, fs, outputFileMode, filewriter, writer, target,
                  pc, op, args, result, written, opened, reached, closed >>

\* The outermost filepath.Walk returns nil, and ArchiveDir with it.
ArchiveDirReturn ==
  /\ pc = "walking"
  /\ Len(stack) = 1
  /\ stack[1].queue = << >>
  /\ walkReturns(NIL)
  /\ UNCHANGED << separator, fs, outputFileMode, target, op, args, written,
                  opened, reached >>

----------------------------------------------------------------------------
(* The calls the environment makes *)

ContentNames == { << "b" >>, << "a", "/", "b" >>, << "a", "\\", "b" >> }

Perms(S) ==
  { s \in [1..Cardinality(S) -> S] :
      \A i, j \in 1..Cardinality(S) : i # j => s[i] # s[j] }

\* The target fails at open(), or at the last key's Create or Write.
MultipleFaults(n) ==
  { [kind |-> "none", at |-> 0], [kind |-> "open", at |-> 0] }
    \cup { [kind |-> k, at |-> i] : k \in {"create", "write"}, i \in {n} \ {0} }

ExcludeLists ==
  { << >> } \cup
  { << Str0, e >> : e \in { << "b", "/", "b" >>, << "a", "/", "b" >>,
                           << "b", "/", "a" >> } }

DirOpts ==
  { [Excludes |-> e, ExcludeSymlinkDirectories |-> x] :
      e \in ExcludeLists, x \in BOOLEAN }

Next ==
  \/ \E mode \in ModeStrings : SetOutputFileMode(mode)
  \/ \E n \in ContentNames, fault \in {"none", "open", "create", "write"} :
       ArchiveContent(n, fault)
  \/ \E p \in {<< "a" >>, << "b", "b" >>, << "b", "b", "a" >>}, fault \in {"none", "read", "open", "create", "write"} :
       ArchiveFile(p, fault)
  \/ \E content \in SUBSET ContentNames :
       \E order \in Perms(content), fault \in MultipleFaults(Cardinality(content)) :
         ArchiveMultiple(content, order, fault)
  \/ \E d \in {Root, << "b", "b" >>}, opts \in DirOpts, fault \in {"none", "open"} :
       ArchiveDir(d, opts, fault)
  \/ \E fault \in {"none", "walk", "symlink", "create", "write"} :
       WalkStep(fault)
  \/ WalkPop
  \/ ArchiveDirReturn

Spec == Init /\ [][Next]_vars

----------------------------------------------------------------------------
(* Properties *)

Keys(entries) == {entries[i].key : i \in DOMAIN entries}

InvalidMode == outputFileMode # Str0 /\ ParseUint(outputFileMode).err

\* C1: ArchiveMultiple writes the entries in strictly ascending order of the
\* mapping's names, each under its slash-normalised name, and when it
\* succeeds there is exactly one entry per name of the mapping, whatever
\* order the map yielded the names in.
MultipleWritesSortedKeys ==
  (pc = "idle" /\ op = "ArchiveMultiple") =>
    /\ \A i \in 1..(Len(written) - 1) :
         StrLess(written[i].key, written[i + 1].key)
    /\ \A i \in DOMAIN written :
         /\ written[i].key \in args.content
         /\ written[i].name = ToSlash(written[i].key)
    /\ result = NIL =>
         /\ Keys(written) = args.content
         /\ Len(written) = Cardinality(args.content)
    /\ target = written

\* A mapping of three names has been written in full.
MultipleWritesSortedKeysWitness ==
  /\ pc = "idle"
  /\ op = "ArchiveMultiple"
  /\ result = NIL
  /\ Len(target) = 3

\* C4: once a public operation has returned, on success or on any error,
\* writer and filewriter are nil, and an operation that opened the target
\* closed the zip writer and then the file.
WriterReleasedOnReturn ==
  pc = "idle" =>
    /\ writer = NIL
    /\ filewriter = NIL
    /\ closed = (IF opened THEN << "writer", "filewriter" >> ELSE << >>)

\* ArchiveDir has returned a write error from inside a nested walk.
WriterReleasedOnReturnWitness ==
  /\ pc = "idle"
  /\ op = "ArchiveDir"
  /\ result = "write_error"
  /\ written # << >>
  /\ written[Len(written)].depth > 1
  /\ writer = NIL

\* C8: ArchiveFile, when it succeeds, has written exactly one entry, named
\* by the base name of the file alone, with method Deflate and the zero
\* modification time.
FileWritesOneBaseNamedEntry ==
  (pc = "idle" /\ op = "ArchiveFile" /\ result = NIL) =>
    /\ Len(written) = 1
    /\ target = written
    /\ written[1].name = << args.infilename[Len(args.infilename)] >>
    /\ \A i \in DOMAIN written[1].name :
         written[1].name[i] \notin {"/", "\\"}
    /\ written[1].method = "deflate"
    /\ written[1].modtime = "zero"

\* The file b/b/a, two directories down, has been archived.
FileWritesOneBaseNamedEntryWitness ==
  /\ pc = "idle"
  /\ op = "ArchiveFile"
  /\ result = NIL
  /\ args.infilename = << "b", "b", "a" >>
  /\ Len(target) = 1

\* C10 as stated: after an operation that called open(), the target holds
\* exactly the entries that operation wrote.
TargetOfLastCallReachingOpen ==
  (pc = "idle" /\ reached) => target = written

\* C10, amended: an operation whose open() succeeded leaves in the target
\* exactly the entries it wrote, up to a failure if it failed; any other
\* call (one that fails before open(), or whose open() fails) leaves the
\* target as it was.
TargetOfLastOpenedOperation ==
  [][ /\ opened' => target' = written'
      /\ ~opened' => target' = target ]_vars

\* A call has failed its input validation and the archive of an earlier
\* operation is still there.
TargetOfLastOpenedOperationWitness ==
  /\ pc = "idle"
  /\ result = "invalid_input"
  /\ ~reached
  /\ target # << >>

----------------------------------------------------------------------------
(* ArchiveDir *)

RECURSIVE SlashJoin(_)
\* The components p joined by forward slashes.
SlashJoin(p) ==
  IF p = << >> THEN << >>
  ELSE IF Len(p) = 1 THEN << p[1] >>
  ELSE << p[1], "/" >> \o SlashJoin(Tail(p))

\* s with every backslash of the platform's separator turned into a slash.
Slashes(s) ==
  [i \in DOMAIN s |-> IF separator = "\\" /\ s[i] = "\\" THEN "/" ELSE s[i]]

\* The components of a slash-separated name of one-character components.
NameElements(name) == [i \in 1..((Len(name) + 1) \div 2) |-> name[2 * i - 1]]

\* The path of node relative to the directory ArchiveDir was called on.
RelativeTo(indirname, node) == SubSeq(node, Len(indirname) + 1, Len(node))

\* name is the archive path of a symbolic link: its directory resolves, from
\* the directory being archived, to a directory that holds a link of
\* that name.
IsLinkPath(name) ==
  LET c == NameElements(name)
      dir == EvalSymlinks(args.indirname \o SubSeq(c, 1, Len(c) - 1))
  IN /\ name # << >>
     /\ dir # NoPath
     /\ Kind(Append(dir, c[Len(c)])) = "link"

\* C2: no entry of ArchiveDir is named by a non-empty exclusion or lies
\* under one, whether the excluded directory was met in the tree itself or
\* in the nested walk of a followed link.
ExcludedSubtreeAbsent ==
  op = "ArchiveDir" =>
    \A i \in DOMAIN args.opts.Excludes, j \in DOMAIN written :
      LET exclude == Slashes(args.opts.Excludes[i])
      IN exclude # Str0 =>
           /\ written[j].name # exclude
           /\ ~IsPrefix(exclude \o << "/" >>, written[j].name)

\* With a/b excluded and a a link to b, the walk has finished: b/a was
\* written as a/a through the link, the directory b/b was skipped there,
\* and its file was written as b/b/a on the direct way.
ExcludedSubtreeAbsentWitness ==
  /\ pc = "idle"
  /\ op = "ArchiveDir"
  /\ result = NIL
  /\ \E i \in DOMAIN args.opts.Excludes :
       Slashes(args.opts.Excludes[i]) = << "a", "/", "b" >>
  /\ Kind(<< "a" >>) = "link"
  /\ Kind(<< "b", "b", "a" >>) = "file"
  /\ \E j \in DOMAIN written : written[j].name = << "a", "/", "a" >>
  /\ \E j \in DOMAIN written : written[j].name = << "b", "/", "b", "/", "a" >>

\* C3: with ExcludeSymlinkDirectories unset, an entry written by a nested
\* walk, at any depth, is named under the base path of that walk, which is
\* the archive path of a symbolic link; the name is not the real path of
\* the file, and followed from the archived directory it leads to the file
\* whose bytes the entry holds.
SymlinkedEntriesUnderLink ==
  (op = "ArchiveDir" /\ ~args.opts.ExcludeSymlinkDirectories) =>
    \A j \in DOMAIN written :
      LET e == written[j]
      IN e.depth > 1 =>
           /\ IsPrefix(Slashes(e.base) \o << "/" >>, e.name)
           /\ IsLinkPath(Slashes(e.base))
           /\ e.name # SlashJoin(e.node)
           /\ e.data # NoPath =>
                EvalSymlinks(args.indirname \o NameElements(e.name)) = e.data

\* A walk through two links has finished: an entry of depth three is in
\* the archive with its bytes.
SymlinkedEntriesUnderLinkWitness ==
  /\ pc = "idle"
  /\ op = "ArchiveDir"
  /\ result = NIL
  /\ \E j \in DOMAIN written :
       /\ written[j].depth = 3
       /\ written[j].data # NoPath
       /\ Len(written[j].name) = 5

\* node, at or below the archived directory, is kept out by an exclusion
\* of itself or of a directory above it.
Excluded(node) ==
  \E n \in (Len(args.indirname) + 1)..Len(node), i \in DOMAIN args.opts.Excludes :
    /\ args.opts.Excludes[i] # Str0
    /\ Slashes(args.opts.Excludes[i])
         = SlashJoin(RelativeTo(args.indirname, SubSeq(node, 1, n)))

\* The regular files of the tree below the archived directory that no
\* exclusion keeps out.
FilesToEmit ==
  { p \in Skeleton : /\ Kind(p) = "file"
                     /\ Len(p) > Len(args.indirname)
                     /\ IsPrefix(args.indirname, p)
                     /\ ~Excluded(p) }

\* C5: with an output file mode that does not parse, ArchiveFile on a
\* valid file returns the parse error and ArchiveDir never writes an
\* entry: it returns the parse error at the first entry it would emit, so
\* it returns nil only when the tree has no file to emit, and what else it
\* returns is an error of the walk itself.
InvalidModeWritesNothing ==
  (InvalidMode /\ op \in {"ArchiveFile", "ArchiveDir"}) =>
    /\ written = << >>
    /\ target = << >>
    /\ (pc = "idle" /\ op = "ArchiveFile") => result = "parse_error"
    /\ (pc = "idle" /\ op = "ArchiveDir") =>
         /\ result \in {"parse_error", "walk_error", "symlink_error", NIL}
         /\ result = NIL => FilesToEmit = {}

\* ArchiveDir on the whole tree, whose first node is the file a, has
\* returned the parse error.
InvalidModeWritesNothingWitness ==
  /\ pc = "idle"
  /\ op = "ArchiveDir"
  /\ InvalidMode
  /\ result = "parse_error"
  /\ args.indirname = Root
  /\ Kind(<< "a" >>) = "file"
  /\ target = << >>

\* C6: a call of ArchiveDir runs to completion or failure: a walk that has
\* started goes on until ArchiveDir returns, and is never cut off by the
\* end of the process before that.
ArchiveDirRunsToReturn == pc \in {"idle", "walking"}

\* A node the walk is at is a link the walk function keeps as an entry.
AtKeptLink(path) ==
  /\ Kind(path) = "link"
  /\ ~Excluded(path)

\* C7: with ExcludeSymlinkDirectories set there is never a nested walk,
\* and every entry is named by the path of its node below the archived
\* directory and built from the metadata of that very node; the step of
\* the walk at a link no exclusion keeps out adds exactly one such entry
\* for the link, unless the walk, the mode or the archive fails first.
SymlinkKeptAsEntry ==
  [][ (pc = "walking" /\ args.opts.ExcludeSymlinkDirectories) =>
        /\ Len(stack') <= 1
        /\ \A j \in DOMAIN written' :
             LET e == written'[j]
             IN /\ e.depth = 1
                /\ e.meta = e.node
                /\ IsPrefix(args.indirname, e.node)
                /\ e.name = SlashJoin(RelativeTo(args.indirname, e.node))
        /\ (stack[1].queue # << >> /\ AtKeptLink(Head(stack[1].queue))) =>
             \/ /\ result' \in {"walk_error", "parse_error", "create_error"}
                /\ written' = written
             \/ /\ Len(written') = Len(written) + 1
                /\ SubSeq(written', 1, Len(written)) = written
                /\ written'[Len(written')].node = Head(stack[1].queue)
                /\ \A j \in DOMAIN written :
                     written[j].node # Head(stack[1].queue) ]_vars

\* The walk has met the link a, which leads to the directory b: the
\* archive holds one entry for it, from the link's own metadata, and
\* nothing from inside b under its name.
SymlinkKeptAsEntryWitness ==
  /\ op = "ArchiveDir"
  /\ args.opts.ExcludeSymlinkDirectories
  /\ Kind(<< "a" >>) = "link"
  /\ Kind(EvalSymlinks(<< "a" >>)) = "dir"
  /\ \E j \in DOMAIN written :
       /\ written[j].node = << "a" >>
       /\ written[j].meta = << "a" >>
       /\ written[j].name = << "a" >>

\* The entry names the platform makes of two names are the same.
SameNormalised(k1, k2) == Slashes(k1) = Slashes(k2)

\* C9 as stated: no two entries of one ArchiveDir or ArchiveMultiple have
\* the same name.
NoDuplicateEntryPaths ==
  op \in {"ArchiveDir", "ArchiveMultiple"} =>
    \A i, j \in DOMAIN written : i # j => written[i].name # written[j].name

\* C9, amended: no two entries of one ArchiveDir have the same name, and
\* none of one ArchiveMultiple whose names stay distinct once the platform
\* has turned its separators into slashes.
NoDuplicateEntryPathsOfDistinctNames ==
  (\/ op = "ArchiveDir"
   \/ /\ op = "ArchiveMultiple"
      /\ \A k1, k2 \in args.content : k1 # k2 => ~SameNormalised(k1, k2)) =>
    \A i, j \in DOMAIN written : i # j => written[i].name # written[j].name

\* ArchiveDir has finished and wrote the bytes of one file twice, once on
\* the direct way and once through a link, under two names.
NoDuplicateEntryPathsOfDistinctNamesWitness ==
  /\ pc = "idle"
  /\ op = "ArchiveDir"
  /\ result = NIL
  /\ \E i, j \in DOMAIN written :
       /\ i # j
       /\ written[i].data = written[j].data
       /\ written[i].depth = 1
       /\ written[j].depth = 2

====
